---- MODULE Spec2Model ----
(***************************************************************************)
(* A model of the CHIP-8 virtual machine of sdorourk/ocho: the instruction *)
(* decoder (instruction.rs), the framebuffer (framebuffer.rs), the keypad  *)
(* and the fetch/decode/execute step (chip8.rs), and the parts of the      *)
(* driver loop (emulator.rs) that touch the machine's public fields.       *)
(***************************************************************************)
EXTENDS Integers, Sequences, FiniteSets, TLC

VARIABLES
    rom,          \* the byte sequence handed to Chip8::new
    result,       \* "pending" before Chip8::new, then "Ok" or "Err"
    error,        \* the Err(String) of Chip8::new, "" otherwise
    mem,          \* Chip8::mem, as the function from the addresses that hold a
                  \* nonzero byte to that byte; every other address holds 0
    buffer,       \* Framebuffer::buffer, as the set of the offsets whose pixel
                  \* is true
    updated,      \* Framebuffer::updated
    v,            \* Chip8::v
    i,            \* Chip8::i
    pc,           \* Chip8::pc
    dt,           \* Chip8::dt
    st,           \* Chip8::st
    stack,        \* Chip8::stack
    sp,           \* Chip8::sp
    keys,         \* Keypad::keys
    wait,         \* Keypad::wait
    key_released, \* Keypad::key_released, None as << >> and Some(k) as <<k>>
    quirks,       \* Chip8::quirks
    fatal,        \* the message of the panic that stopped the machine, "" if none
    value,        \* the u16 handed to Instruction::from
    decoded       \* the Instruction it returned, << >> before the call

vars == <<rom, result, error, mem, buffer, updated, v, i, pc, dt, st, stack, sp,
          keys, wait, key_released, quirks, fatal, value, decoded>>

\* The fields of Chip8, Framebuffer and Keypad other than pc.
vmData == <<mem, buffer, updated, v, i, dt, st, stack, sp, keys, wait,
            key_released, quirks>>

\* The decoder's input and output, used only by the decoder's own specification.
decoderVars == <<value, decoded>>

----------------------------------------------------------------------------
(* Program constants (chip8.rs)                                            *)

MEMORY_SIZE == 4096
PROGRAM_START == 512
DISPLAY_HEIGHT == 32
DISPLAY_WIDTH == 64
STACK_SIZE == 16
NUMBER_OF_REGISTERS == 16
KEYPAD_SIZE == 16
GLYPH_COUNT == 16
GLYPH_SIZE == 5

\* FONT_DATA, as a 1-indexed sequence: FONT_DATA[k + 1] is the byte at offset k.
FONT_DATA ==
    << 240, 144, 144, 144, 240,
        32,  96,  32,  32, 112,
       240,  16, 240, 128, 240,
       240,  16, 240,  16, 240,
       144, 144, 240,  16,  16,
       240, 128, 240,  16, 240,
       240, 128, 240, 144, 240,
       240,  16,  32,  64,  64,
       240, 144, 240, 144, 240,
       240, 144, 240,  16, 240,
       240, 144, 240, 144, 144,
       224, 144, 224, 144, 224,
       240, 128, 128, 128, 240,
       224, 144, 144, 144, 224,
       240, 128, 240, 128, 240,
       240, 128, 240, 128, 128 >>

\* Option<u8>
None == << >>
Some(k) == <<k>>

----------------------------------------------------------------------------
(* Machine arithmetic                                                      *)

RECURSIVE BitAnd(_, _)
BitAnd(a, b) ==
    IF a = 0 \/ b = 0 THEN 0
    ELSE (a % 2) * (b % 2) + 2 * BitAnd(a \div 2, b \div 2)

RECURSIVE BitOr(_, _)
BitOr(a, b) ==
    IF a = 0 THEN b
    ELSE IF b = 0 THEN a
    ELSE (IF a % 2 = 1 \/ b % 2 = 1 THEN 1 ELSE 0) + 2 * BitOr(a \div 2, b \div 2)

RECURSIVE BitXor(_, _)
BitXor(a, b) ==
    IF a = 0 THEN b
    ELSE IF b = 0 THEN a
    ELSE ((a + b) % 2) + 2 * BitXor(a \div 2, b \div 2)

\* a >> k
ShiftRight(a, k) == a \div (2 ^ k)

\* u8 arithmetic: wrapping_add, overflowing_add, overflowing_sub, <<= 1
WrappingAdd8(a, b) == (a + b) % 256
\* overflowing_add that reports the carry one too early.
OverflowingAdd8_CarryAt255(a, b) == <<(a + b) % 256, a + b >= 255>>

OverflowingAdd8(a, b) == <<(a + b) % 256, a + b > 255>>
\* overflowing_sub that reports a borrow for equal operands.
OverflowingSub8_BorrowOnEqual(a, b) == <<(a - b) % 256, a <= b>>

OverflowingSub8(a, b) == <<(a - b) % 256, a < b>>
ShiftLeft8(a) == (a * 2) % 256

\* u16::from_be_bytes([hi, lo])
FromBeBytes(hi, lo) == hi * 256 + lo

----------------------------------------------------------------------------
(* instruction.rs: impl From<u16> for Instruction.  An Instruction is the  *)
(* tuple of its variant's name and the variant's fields.                   *)

DecodeGroup0(nnn) ==
    IF nnn = 224 THEN <<"Cls">>
    ELSE IF nnn = 238 THEN <<"Ret">>
    ELSE <<"Sys", nnn>>

\* Group 5 decoded without looking at the low nibble.
DecodeGroup5_AnyN(val, x, y, n) == <<"Ske", x, y>>


DecodeGroup5(val, x, y, n) ==
    IF n = 0 THEN <<"Ske", x, y>> ELSE <<"Err", val>>

DecodeGroup8(val, x, y, n) ==
    CASE n = 0 -> <<"Ld", x, y>>
      [] n = 1 -> <<"Or", x, y>>
      [] n = 2 -> <<"And", x, y>>
      [] n = 3 -> <<"Xor", x, y>>
      [] n = 4 -> <<"Add", x, y>>
      [] n = 5 -> <<"Sub", x, y>>
      [] n = 6 -> <<"Shr", x, y>>
      [] n = 7 -> <<"Subr", x, y>>
      [] n = 14 -> <<"Shl", x, y>>
      [] OTHER -> <<"Err", val>>

DecodeGroup9(val, x, y, n) ==
    IF n = 0 THEN <<"Skne", x, y>> ELSE <<"Err", val>>

DecodeGroupE(val, x, nn) ==
    CASE nn = 158 -> <<"Skp", x>>
      [] nn = 161 -> <<"Sknp", x>>
      [] OTHER -> <<"Err", val>>

DecodeGroupF(val, x, nn) ==
    CASE nn = 7 -> <<"Ldft", x>>
      [] nn = 10 -> <<"Ldk", x>>
      [] nn = 21 -> <<"Lddt", x>>
      [] nn = 24 -> <<"Ldst", x>>
      [] nn = 30 -> <<"Addi", x>>
      [] nn = 41 -> <<"Font", x>>
      [] nn = 51 -> <<"Bcd", x>>
      [] nn = 85 -> <<"Sreg", x>>
      [] nn = 101 -> <<"Lreg", x>>
      [] OTHER -> <<"Err", val>>

\* u8::try_from(a): TRUE when it is Err, so that unwrap() panics.
TryFromU8Fails(a) == a > 255

Decode(val) ==
    LET grp == ShiftRight(BitAnd(val, 61440), 12)
        x == ShiftRight(BitAnd(val, 3840), 8)
        y == ShiftRight(BitAnd(val, 240), 4)
        n == BitAnd(val, 15)
        nnn == BitAnd(val, 4095)
        nn == BitAnd(val, 255)
    IN  CASE TryFromU8Fails(n) \/ TryFromU8Fails(nn) -> <<"panic">>
          [] grp = 0 -> DecodeGroup0(nnn)
          [] grp = 1 -> <<"Jmp", nnn>>
          [] grp = 2 -> <<"Call", nnn>>
          [] grp = 3 -> <<"Skeb", x, nn>>
          [] grp = 4 -> <<"Skneb", x, nn>>
          [] grp = 5 -> DecodeGroup5(val, x, y, n)
          [] grp = 6 -> <<"Ldb", x, nn>>
          [] grp = 7 -> <<"Addb", x, nn>>
          [] grp = 8 -> DecodeGroup8(val, x, y, n)
          [] grp = 9 -> DecodeGroup9(val, x, y, n)
          [] grp = 10 -> <<"Ldi", nnn>>
          [] grp = 11 -> <<"Jmpz", nnn>>
          [] grp = 12 -> <<"Rnd", x, nn>>
          [] grp = 13 -> <<"Draw", x, y, n>>
          [] grp = 14 -> DecodeGroupE(val, x, nn)
          [] grp = 15 -> DecodeGroupF(val, x, nn)
          [] OTHER -> <<"Err", val>>

----------------------------------------------------------------------------
(* framebuffer.rs.  A framebuffer value is [buffer, updated]; draw also    *)
(* carries its return value ret.                                           *)

Min(a, b) == IF a < b THEN a ELSE b

\* [false; HEIGHT * WIDTH]
AllUnset == {p \in 0..(DISPLAY_HEIGHT * DISPLAY_WIDTH - 1) : FALSE}

\* A new framebuffer that is already marked as updated.
FramebufferNew_Dirty == [buffer |-> AllUnset, updated |-> TRUE]

\* Framebuffer::new
FramebufferNew == [buffer |-> AllUnset, updated |-> FALSE]

\* clear that leaves the flag as it finds it.
FramebufferClear_KeepsFlag(fb) == [buffer |-> AllUnset, updated |-> fb.updated]

\* Framebuffer::clear
FramebufferClear(fb) == [buffer |-> AllUnset, updated |-> TRUE]

\* The offset into buffer that Index and IndexMut compute for (col, row).
FbOffset(col, row) == (row % DISPLAY_HEIGHT) * DISPLAY_WIDTH + (col % DISPLAY_WIDTH)

\* impl Index<(usize, usize)> for Framebuffer
FbIndex(fb, col, row) == FbOffset(col, row) \in fb.buffer

\* impl IndexMut<(usize, usize)> for Framebuffer, followed by the store of b
FbIndexMutSet(fb, col, row, b) ==
    [fb EXCEPT !.updated = TRUE,
               !.buffer = IF b THEN fb.buffer \cup {FbOffset(col, row)}
                          ELSE fb.buffer \ {FbOffset(col, row)}]

\* The inner loop's body setting the pixel where it toggles it.
DrawPixel_Or(fb, col, row, x, y, sprite) ==
    LET sprite_pixel ==
            BitAnd(ShiftRight(sprite[(row - y) + 1], 7 - (col - x)), 1) = 1
    IN  IF sprite_pixel /\ FbIndex(fb, col, row)
        THEN [FbIndexMutSet(fb, col, row, TRUE) EXCEPT !.ret = TRUE]
        ELSE IF sprite_pixel /\ ~FbIndex(fb, col, row)
        THEN FbIndexMutSet(fb, col, row, TRUE)
        ELSE fb

\* The body of the inner loop of Framebuffer::draw for pixel (col, row).
DrawPixel(fb, col, row, x, y, sprite) ==
    LET sprite_pixel ==
            BitAnd(ShiftRight(sprite[(row - y) + 1], 7 - (col - x)), 1) = 1
    IN  IF sprite_pixel /\ FbIndex(fb, col, row)
        THEN [FbIndexMutSet(fb, col, row, FALSE) EXCEPT !.ret = TRUE]
        ELSE IF sprite_pixel /\ ~FbIndex(fb, col, row)
        THEN FbIndexMutSet(fb, col, row, TRUE)
        ELSE fb

\* The two nested loops of Framebuffer::draw, for i in x..max_x and for j in
\* y..max_y, flattened: iteration k visits column x + k div h, row y + k mod h.
RECURSIVE DrawLoop(_, _, _, _, _, _, _)
DrawLoop(fb, k, x, y, max_x, max_y, sprite) ==
    LET h == max_y - y
    IN  IF h <= 0 \/ k >= (max_x - x) * h THEN fb
        ELSE DrawLoop(DrawPixel(fb, x + (k \div h), y + (k % h), x, y, sprite),
                      k + 1, x, y, max_x, max_y, sprite)

\* Framebuffer::draw that wraps whatever the wrap argument is.
FramebufferDraw_AlwaysWraps(fb, x8, y8, n, sprite, wrap) ==
    LET x == x8 % DISPLAY_WIDTH
        y == y8 % DISPLAY_HEIGHT
    IN  DrawLoop([buffer |-> fb.buffer, updated |-> fb.updated, ret |-> FALSE],
                 0, x, y, x + 8, y + n, sprite)

\* Framebuffer::draw; sprite is the 1-indexed sequence of the n sprite bytes.
FramebufferDraw(fb, x8, y8, n, sprite, wrap) ==
    LET x == x8 % DISPLAY_WIDTH
        y == y8 % DISPLAY_HEIGHT
        max_x == IF wrap THEN x + 8 ELSE Min(x + 8, DISPLAY_WIDTH)
        max_y == IF wrap THEN y + n ELSE Min(y + n, DISPLAY_HEIGHT)
    IN  DrawLoop([buffer |-> fb.buffer, updated |-> fb.updated, ret |-> FALSE],
                 0, x, y, max_x, max_y, sprite)

----------------------------------------------------------------------------
(* chip8.rs: Keypad.  kp is a record that carries the Keypad's fields      *)
(* keys, wait and key_released, and fatal for the panic of its asserts.    *)

InvalidKey == "not a valid key"

\* Keypad::new
KeypadNew ==
    [keys |-> [k \in 0..(KEYPAD_SIZE - 1) |-> FALSE],
     wait |-> FALSE,
     key_released |-> None]

\* Keypad::key_pressed
\* Keypad::key_pressed that also arms the keypad.
KeypadKeyPressed_Arms(kp, key) ==
    IF ~(key < KEYPAD_SIZE) THEN [kp EXCEPT !.fatal = InvalidKey]
    ELSE [kp EXCEPT !.keys[key] = TRUE, !.wait = TRUE]

KeypadKeyPressed(kp, key) ==
    IF ~(key < KEYPAD_SIZE) THEN [kp EXCEPT !.fatal = InvalidKey]
    ELSE [kp EXCEPT !.keys[key] = TRUE]

\* Keypad::key_released recording the key whether or not the keypad waits.
KeypadKeyReleased_Always(kp, key) ==
    IF ~(key < KEYPAD_SIZE) THEN [kp EXCEPT !.fatal = InvalidKey]
    ELSE [kp EXCEPT !.keys[key] = FALSE, !.key_released = Some(key)]

\* Keypad::key_released
\* Keypad::key_released that keeps the first key released while waiting.
KeypadKeyReleased_KeepsFirst(kp, key) ==
    IF ~(key < KEYPAD_SIZE) THEN [kp EXCEPT !.fatal = InvalidKey]
    ELSE IF kp.wait /\ kp.key_released = None
    THEN [kp EXCEPT !.keys[key] = FALSE, !.key_released = Some(key)]
    ELSE [kp EXCEPT !.keys[key] = FALSE]

KeypadKeyReleased(kp, key) ==
    IF ~(key < KEYPAD_SIZE) THEN [kp EXCEPT !.fatal = InvalidKey]
    ELSE IF kp.wait
    THEN [kp EXCEPT !.keys[key] = FALSE, !.key_released = Some(key)]
    ELSE [kp EXCEPT !.keys[key] = FALSE]

----------------------------------------------------------------------------
(* chip8.rs: Chip8.  The operators below take the machine as the record c  *)
(* of its fields and return the machine after the call; a panic leaves its *)
(* message in fatal and the fields as they were when it was raised.        *)

ProgramTooLarge == "program is too large to fit in memory"
ReadOutOfBounds == "Attempted to read outside of memory bounds"
WriteOutOfBounds == "Attempted to write outside of memory bounds"
StackUnderflow == "Stack underflow"
StackOverflow == "Stack overflow"
InvalidGlyph == "not a valid glyph in the default font"
SliceOutOfRange == "range end index out of range for slice"

\* self.mem[a]; an index outside 0..MEMORY_SIZE - 1 has no value.
MemGet(m, a) ==
    CASE a \in 0..(MEMORY_SIZE - 1) -> IF a \in DOMAIN m THEN m[a] ELSE 0

\* self.mem[a] = b
MemSet(m, a, b) ==
    CASE a \in 0..(MEMORY_SIZE - 1) ->
        [k \in (DOMAIN m \ {a}) \cup (IF b = 0 THEN {} ELSE {a}) |->
            IF k = a THEN b ELSE m[k]]

\* mem[start .. start + src.len()].copy_from_slice(src)
CopyFromSlice(m, start, src) ==
    CASE start + Len(src) <= MEMORY_SIZE ->
        LET range == start..(start + Len(src) - 1)
        IN  [a \in (DOMAIN m \ range) \cup {k \in range : src[(k - start) + 1] # 0} |->
                IF a \in range THEN src[(a - start) + 1] ELSE m[a]]

\* [0; MEMORY_SIZE]
AllZero == [a \in {} |-> 0]

\* The font copied one byte too far up.
NewMem_FontShifted(r) ==
    CopyFromSlice(CopyFromSlice(AllZero, 1, FONT_DATA), PROGRAM_START, r)

\* The memory Chip8::new builds: zeros, then the font, then the ROM.
NewMem(r) ==
    CopyFromSlice(CopyFromSlice(AllZero, 0, FONT_DATA), PROGRAM_START, r)

\* The size check with > for >=.
TooLarge_Strict(r) == Len(r) > MEMORY_SIZE - PROGRAM_START

\* The size check of Chip8::new: TRUE when the ROM is refused.
TooLarge(r) == Len(r) >= MEMORY_SIZE - PROGRAM_START

\* The Chip8 value that Chip8::new returns in Ok.
NewChip(r, q) ==
    [mem |-> NewMem(r),
     buffer |-> FramebufferNew.buffer,
     updated |-> FramebufferNew.updated,
     v |-> [k \in 0..(NUMBER_OF_REGISTERS - 1) |-> 0],
     i |-> 0,
     pc |-> PROGRAM_START,
     dt |-> 0,
     st |-> 0,
     stack |-> [k \in 0..(STACK_SIZE - 1) |-> 0],
     sp |-> 0,
     keys |-> KeypadNew.keys,
     wait |-> KeypadNew.wait,
     key_released |-> KeypadNew.key_released,
     quirks |-> q,
     fatal |-> ""]

\* Chip8::fetch: TRUE when its assert fails.
FetchFails(c) == ~(c.pc + 1 < MEMORY_SIZE)

\* Chip8::fetch
Fetch(c) == FromBeBytes(MemGet(c.mem, c.pc), MemGet(c.mem, c.pc + 1))

Panic(c, msg) == [c EXCEPT !.fatal = msg]

\* Sys(_) => {}
ExecSys(c) == c

\* An unrecognized opcode treated as fatal.
ExecErr_Fatal(c) == Panic(c, "unrecognized opcode")

\* Err(_) => {}
ExecErr(c) == c

ExecCls(c) ==
    LET fb == FramebufferClear([buffer |-> c.buffer, updated |-> c.updated])
    IN  [c EXCEPT !.buffer = fb.buffer, !.updated = fb.updated]

\* Ret that ignores an empty stack.
ExecRet_IgnoresEmpty(c) ==
    IF c.sp = 0 THEN c
    ELSE [c EXCEPT !.sp = c.sp - 1, !.pc = c.stack[c.sp - 1] + 2]


ExecRet(c) ==
    IF c.sp = 0 THEN Panic(c, StackUnderflow)
    ELSE [c EXCEPT !.sp = c.sp - 1, !.pc = c.stack[c.sp - 1] + 2]

ExecJmp(c, nnn) == [c EXCEPT !.pc = nnn]

\* Call whose overflow check is off by one.
ExecCall_LateCheck(c, nnn) ==
    IF c.sp = STACK_SIZE + 1 THEN Panic(c, StackOverflow)
    ELSE [c EXCEPT !.stack = [k \in DOMAIN c.stack |->
                                 IF k = c.sp THEN c.pc - 2 ELSE c.stack[k]],
                   !.sp = c.sp + 1, !.pc = nnn]

\* Call that pushes the address of the next instruction.
ExecCall_PushesNext(c, nnn) ==
    IF c.sp = STACK_SIZE THEN Panic(c, StackOverflow)
    ELSE [c EXCEPT !.stack[c.sp] = c.pc, !.sp = c.sp + 1, !.pc = nnn]


ExecCall(c, nnn) ==
    IF c.sp = STACK_SIZE THEN Panic(c, StackOverflow)
    ELSE [c EXCEPT !.stack[c.sp] = c.pc - 2, !.sp = c.sp + 1, !.pc = nnn]

Skip(c, cond) == IF cond THEN [c EXCEPT !.pc = c.pc + 2] ELSE c

\* Skeb that skips when the operands differ.
ExecSkeb_Inverted(c, x, nn) == Skip(c, c.v[x] # nn)

ExecSkeb(c, x, nn) == Skip(c, c.v[x] = nn)
ExecSkneb(c, x, nn) == Skip(c, c.v[x] # nn)
ExecSke(c, x, y) == Skip(c, c.v[x] = c.v[y])
ExecSkne(c, x, y) == Skip(c, c.v[x] # c.v[y])

ExecLdb(c, x, nn) == [c EXCEPT !.v[x] = nn]
ExecAddb(c, x, nn) == [c EXCEPT !.v[x] = WrappingAdd8(c.v[x], nn)]
ExecLd(c, x, y) == [c EXCEPT !.v[x] = c.v[y]]

\* The tail of Or, And and Xor: if self.quirks.vf_reset { self.v[0xF] = 0 }
\* The tail of Or, And and Xor without the quirk's reset.
VfReset_Never(c) == c

VfReset(c) == IF c.quirks.vf_reset THEN [c EXCEPT !.v[15] = 0] ELSE c

ExecOr(c, x, y) == VfReset([c EXCEPT !.v[x] = BitOr(c.v[x], c.v[y])])
ExecAnd(c, x, y) == VfReset([c EXCEPT !.v[x] = BitAnd(c.v[x], c.v[y])])
ExecXor(c, x, y) == VfReset([c EXCEPT !.v[x] = BitXor(c.v[x], c.v[y])])

\* v[x] is stored first and v[0xF] second, so VF wins when x = 0xF.
ExecAdd(c, x, y) ==
    LET r == OverflowingAdd8(c.v[x], c.v[y])
        c1 == [c EXCEPT !.v[x] = r[1]]
    IN  [c1 EXCEPT !.v[15] = IF r[2] THEN 1 ELSE 0]

ExecSub(c, x, y) ==
    LET r == OverflowingSub8(c.v[x], c.v[y])
        c1 == [c EXCEPT !.v[x] = r[1]]
    IN  [c1 EXCEPT !.v[15] = IF r[2] THEN 0 ELSE 1]

ExecSubr(c, x, y) ==
    LET r == OverflowingSub8(c.v[y], c.v[x])
        c1 == [c EXCEPT !.v[x] = r[1]]
    IN  [c1 EXCEPT !.v[15] = IF r[2] THEN 0 ELSE 1]

\* Shr that never copies Vy.
ExecShr_IgnoresQuirk(c, x, y) ==
    LET flag == BitAnd(c.v[x], 1)
        c2 == [c EXCEPT !.v[x] = ShiftRight(c.v[x], 1)]
    IN  [c2 EXCEPT !.v[15] = flag]

ExecShr(c, x, y) ==
    LET c1 == IF c.quirks.shifting THEN [c EXCEPT !.v[x] = c.v[y]] ELSE c
        flag == BitAnd(c1.v[x], 1)
        c2 == [c1 EXCEPT !.v[x] = ShiftRight(c1.v[x], 1)]
    IN  [c2 EXCEPT !.v[15] = flag]

ExecShl(c, x, y) ==
    LET c1 == IF c.quirks.shifting THEN [c EXCEPT !.v[x] = c.v[y]] ELSE c
        flag == ShiftRight(BitAnd(c1.v[x], 128), 7)
        c2 == [c1 EXCEPT !.v[x] = ShiftLeft8(c1.v[x])]
    IN  [c2 EXCEPT !.v[15] = flag]

ExecLdi(c, nnn) == [c EXCEPT !.i = nnn]

\* Jmpz that adds V0 whatever the quirk.
ExecJmpz_AlwaysV0(c, nnn) == [c EXCEPT !.pc = nnn + c.v[0]]

ExecJmpz(c, nnn) ==
    IF c.quirks.jumping
    THEN [c EXCEPT !.pc = nnn + c.v[ShiftRight(nnn, 8)]]
    ELSE [c EXCEPT !.pc = nnn + c.v[0]]

\* byte is the value of rand::thread_rng().gen::<u8>()
ExecRnd(c, x, nn, byte) == [c EXCEPT !.v[x] = BitAnd(byte, nn)]

\* &self.mem[self.i..self.i + n], as a 1-indexed sequence
MemSlice(c, n) == [k \in 1..n |-> MemGet(c.mem, c.i + (k - 1))]

\* Draw that sets VF on a collision and leaves it alone otherwise.
ExecDraw_VfNotCleared(c, x, y, n) ==
    IF c.i + n > MEMORY_SIZE THEN Panic(c, SliceOutOfRange)
    ELSE LET fb == FramebufferDraw([buffer |-> c.buffer, updated |-> c.updated],
                                   c.v[x], c.v[y], n, MemSlice(c, n), c.quirks.wrap)
             c1 == [c EXCEPT !.buffer = fb.buffer, !.updated = fb.updated]
         IN  IF fb.ret THEN [c1 EXCEPT !.v[15] = 1] ELSE c1

ExecDraw(c, x, y, n) ==
    IF c.i + n > MEMORY_SIZE THEN Panic(c, SliceOutOfRange)
    ELSE LET fb == FramebufferDraw([buffer |-> c.buffer, updated |-> c.updated],
                                   c.v[x], c.v[y], n, MemSlice(c, n), c.quirks.wrap)
             c1 == [c EXCEPT !.buffer = fb.buffer, !.updated = fb.updated]
         IN  [c1 EXCEPT !.v[15] = IF fb.ret THEN 1 ELSE 0]

\* impl Index<u8> for Keypad: TRUE when its assert fails.
KeypadIndexFails(key) == ~(key < KEYPAD_SIZE)

ExecSkp(c, x) ==
    IF KeypadIndexFails(c.v[x]) THEN Panic(c, InvalidKey)
    ELSE Skip(c, c.keys[c.v[x]])

ExecSknp(c, x) ==
    IF KeypadIndexFails(c.v[x]) THEN Panic(c, InvalidKey)
    ELSE Skip(c, ~c.keys[c.v[x]])

\* Ldft that counts the delay timer down as it reads it.
ExecLdft_Consumes(c, x) ==
    [c EXCEPT !.v[x] = c.dt, !.dt = IF c.dt > 0 THEN c.dt - 1 ELSE 0]

ExecLdft(c, x) == [c EXCEPT !.v[x] = c.dt]

\* Ldk that takes the released key and leaves it in the keypad.
ExecLdk_KeepsKey(c, x) ==
    IF c.wait
    THEN IF c.key_released # None
         THEN [c EXCEPT !.v[x] = c.key_released[1], !.wait = FALSE]
         ELSE [c EXCEPT !.pc = c.pc - 2]
    ELSE [c EXCEPT !.wait = TRUE, !.pc = c.pc - 2]


\* Ldk that arms the keypad and moves on.
ExecLdk_NoRewindOnArm(c, x) ==
    IF c.wait
    THEN IF c.key_released # None
         THEN [c EXCEPT !.v[x] = c.key_released[1],
                        !.wait = FALSE,
                        !.key_released = None]
         ELSE [c EXCEPT !.pc = c.pc - 2]
    ELSE [c EXCEPT !.wait = TRUE]

ExecLdk(c, x) ==
    IF c.wait
    THEN IF c.key_released # None
         THEN [c EXCEPT !.v[x] = c.key_released[1],
                        !.wait = FALSE,
                        !.key_released = None]
         ELSE [c EXCEPT !.pc = c.pc - 2]
    ELSE [c EXCEPT !.wait = TRUE, !.pc = c.pc - 2]

ExecLddt(c, x) == [c EXCEPT !.dt = c.v[x]]
ExecLdst(c, x) == [c EXCEPT !.st = c.v[x]]
\* Addi that keeps the index register in 16 bits.
ExecAddi_Wraps16(c, x) == [c EXCEPT !.i = (c.i + c.v[x]) % 65536]

ExecAddi(c, x) == [c EXCEPT !.i = c.i + c.v[x]]

ExecFont(c, x) ==
    IF ~(c.v[x] < GLYPH_COUNT) THEN Panic(c, InvalidGlyph)
    ELSE [c EXCEPT !.i = GLYPH_SIZE * c.v[x]]

\* Bcd whose tens digit is not reduced mod 10.
ExecBcd_TensNotReduced(c, x) ==
    IF ~(c.i + 2 < MEMORY_SIZE) THEN Panic(c, WriteOutOfBounds)
    ELSE [c EXCEPT !.mem = MemSet(MemSet(MemSet(c.mem, c.i, c.v[x] \div 100),
                                         c.i + 1, c.v[x] \div 10),
                                  c.i + 2, c.v[x] % 10)]

\* Bcd that stores the hundreds digit before it checks the bounds.
ExecBcd_LateCheck(c, x) ==
    LET c1 == IF c.i < MEMORY_SIZE
              THEN [c EXCEPT !.mem = MemSet(c.mem, c.i, c.v[x] \div 100)]
              ELSE c
    IN  IF ~(c.i + 2 < MEMORY_SIZE) THEN Panic(c1, WriteOutOfBounds)
        ELSE [c1 EXCEPT !.mem = MemSet(MemSet(c1.mem, c.i + 1, (c.v[x] \div 10) % 10),
                                       c.i + 2, c.v[x] % 10)]


ExecBcd(c, x) ==
    IF ~(c.i + 2 < MEMORY_SIZE) THEN Panic(c, WriteOutOfBounds)
    ELSE [c EXCEPT !.mem = MemSet(MemSet(MemSet(c.mem, c.i, c.v[x] \div 100),
                                         c.i + 1, (c.v[x] \div 10) % 10),
                                  c.i + 2, c.v[x] % 10)]

\* if self.quirks.memory { self.i += x + 1 }
MemoryQuirk(c, x) == IF c.quirks.memory THEN [c EXCEPT !.i = c.i + x + 1] ELSE c

\* for offset in 0..=x { self.mem[self.i + offset] = self.v[offset] }
RECURSIVE SregLoop(_, _, _, _, _)
SregLoop(m, regs, index, offset, x) ==
    IF offset > x THEN m
    ELSE SregLoop(MemSet(m, index + offset, regs[offset]), regs, index, offset + 1, x)

\* Sreg that stops one register short of Vx.
ExecSreg_Exclusive(c, x) ==
    IF ~(c.i + x < MEMORY_SIZE) THEN Panic(c, WriteOutOfBounds)
    ELSE MemoryQuirk([c EXCEPT !.mem = SregLoop(c.mem, c.v, c.i, 0, x - 1)], x)

ExecSreg(c, x) ==
    IF ~(c.i + x < MEMORY_SIZE) THEN Panic(c, WriteOutOfBounds)
    ELSE MemoryQuirk([c EXCEPT !.mem = SregLoop(c.mem, c.v, c.i, 0, x)], x)

ExecLreg(c, x) ==
    IF ~(c.i + x < MEMORY_SIZE) THEN Panic(c, ReadOutOfBounds)
    ELSE MemoryQuirk(
            [c EXCEPT !.v = [k \in DOMAIN c.v |->
                IF k <= x THEN MemGet(c.mem, c.i + k) ELSE c.v[k]]], x)

\* Chip8::execute; byte is the random byte Rnd draws.
Execute(c0, instr, byte) ==
    LET c == [c0 EXCEPT !.pc = c0.pc + 2]
        op == instr[1]
    IN  CASE op = "Sys" -> ExecSys(c)
          [] op = "Cls" -> ExecCls(c)
          [] op = "Ret" -> ExecRet(c)
          [] op = "Jmp" -> ExecJmp(c, instr[2])
          [] op = "Call" -> ExecCall(c, instr[2])
          [] op = "Skeb" -> ExecSkeb(c, instr[2], instr[3])
          [] op = "Skneb" -> ExecSkneb(c, instr[2], instr[3])
          [] op = "Ske" -> ExecSke(c, instr[2], instr[3])
          [] op = "Ldb" -> ExecLdb(c, instr[2], instr[3])
          [] op = "Addb" -> ExecAddb(c, instr[2], instr[3])
          [] op = "Ld" -> ExecLd(c, instr[2], instr[3])
          [] op = "Or" -> ExecOr(c, instr[2], instr[3])
          [] op = "And" -> ExecAnd(c, instr[2], instr[3])
          [] op = "Xor" -> ExecXor(c, instr[2], instr[3])
          [] op = "Add" -> ExecAdd(c, instr[2], instr[3])
          [] op = "Sub" -> ExecSub(c, instr[2], instr[3])
          [] op = "Shr" -> ExecShr(c, instr[2], instr[3])
          [] op = "Subr" -> ExecSubr(c, instr[2], instr[3])
          [] op = "Shl" -> ExecShl(c, instr[2], instr[3])
          [] op = "Skne" -> ExecSkne(c, instr[2], instr[3])
          [] op = "Ldi" -> ExecLdi(c, instr[2])
          [] op = "Jmpz" -> ExecJmpz(c, instr[2])
          [] op = "Rnd" -> ExecRnd(c, instr[2], instr[3], byte)
          [] op = "Draw" -> ExecDraw(c, instr[2], instr[3], instr[4])
          [] op = "Skp" -> ExecSkp(c, instr[2])
          [] op = "Sknp" -> ExecSknp(c, instr[2])
          [] op = "Ldft" -> ExecLdft(c, instr[2])
          [] op = "Ldk" -> ExecLdk(c, instr[2])
          [] op = "Lddt" -> ExecLddt(c, instr[2])
          [] op = "Ldst" -> ExecLdst(c, instr[2])
          [] op = "Addi" -> ExecAddi(c, instr[2])
          [] op = "Font" -> ExecFont(c, instr[2])
          [] op = "Bcd" -> ExecBcd(c, instr[2])
          [] op = "Sreg" -> ExecSreg(c, instr[2])
          [] op = "Lreg" -> ExecLreg(c, instr[2])
          [] op = "Err" -> ExecErr(c)

\* Chip8::step
StepChip(c, byte) ==
    IF FetchFails(c) THEN Panic(c, ReadOutOfBounds)
    ELSE Execute(c, Decode(Fetch(c)), byte)

----------------------------------------------------------------------------
(* The ROMs the machine is run on.  A program is a sequence of 16-bit      *)
(* words; word k of a program is loaded at address At(k).                  *)

Word(a, b, c, d) == ((a * 16 + b) * 16 + c) * 16 + d
At(k) == PROGRAM_START + 2 * k

SYS(nnn) == nnn
CLS == Word(0, 0, 14, 0)
RET == Word(0, 0, 14, 14)
JMP(nnn) == Word(1, 0, 0, 0) + nnn
CALL(nnn) == Word(2, 0, 0, 0) + nnn
SKEB(x, nn) == Word(3, x, 0, 0) + nn
SKNEB(x, nn) == Word(4, x, 0, 0) + nn
SKE(x, y) == Word(5, x, y, 0)
LDB(x, nn) == Word(6, x, 0, 0) + nn
ADDB(x, nn) == Word(7, x, 0, 0) + nn
LD(x, y) == Word(8, x, y, 0)
OR(x, y) == Word(8, x, y, 1)
AND(x, y) == Word(8, x, y, 2)
XOR(x, y) == Word(8, x, y, 3)
ADD(x, y) == Word(8, x, y, 4)
SUB(x, y) == Word(8, x, y, 5)
SHR(x, y) == Word(8, x, y, 6)
SUBR(x, y) == Word(8, x, y, 7)
SHL(x, y) == Word(8, x, y, 14)
SKNE(x, y) == Word(9, x, y, 0)
LDI(nnn) == Word(10, 0, 0, 0) + nnn
JMPZ(nnn) == Word(11, 0, 0, 0) + nnn
RND(x, nn) == Word(12, x, 0, 0) + nn
DRAW(x, y, n) == Word(13, x, y, n)
SKP(x) == Word(14, x, 9, 14)
SKNP(x) == Word(14, x, 10, 1)
LDFT(x) == Word(15, x, 0, 7)
LDK(x) == Word(15, x, 0, 10)
LDDT(x) == Word(15, x, 1, 5)
LDST(x) == Word(15, x, 1, 8)
ADDI(x) == Word(15, x, 1, 14)
FONT(x) == Word(15, x, 2, 9)
BCD(x) == Word(15, x, 3, 3)
SREG(x) == Word(15, x, 5, 5)
LREG(x) == Word(15, x, 6, 5)
\* A jump to itself, as word k of a program: the program's end.
HALT(k) == JMP(At(k))

\* The bytes of a program, big-endian, as the ROM file holds them.
Bytes(ws) ==
    [k \in 1..(2 * Len(ws)) |->
        IF k % 2 = 1 THEN ws[(k + 1) \div 2] \div 256 ELSE ws[k \div 2] % 256]

\* The bytes of a program followed by zeros up to len bytes.
Padded(ws, len) ==
    [k \in 1..len |-> IF k <= 2 * Len(ws) THEN Bytes(ws)[k] ELSE 0]

RomLdk == <<LDK(1), LDB(2, 7), HALT(2)>>
RomCallSelf == <<CALL(At(0))>>
RomRet == <<RET>>
RomNested == <<CALL(At(3)), HALT(1), Word(5, 0, 0, 1), CALL(At(5)), RET, RET>>
RomErr ==
    <<LDB(0, 5), LDI(291), SYS(291), Word(5, 1, 2, 1), Word(8, 10, 11, 9),
      Word(9, 0, 0, 1), Word(14, 0, 0, 0), Word(15, 0, 15, 15), HALT(8)>>
RomFetchLast == <<JMP(MEMORY_SIZE - 2)>>
RomFetchOdd == <<JMP(MEMORY_SIZE - 1)>>
RomDrawBounds == <<LDI(MEMORY_SIZE - 2), DRAW(0, 0, 2), LDI(MEMORY_SIZE - 1), DRAW(0, 0, 2)>>
RomBcd ==
    <<LDB(3, 254), LDI(768), BCD(3), LDI(MEMORY_SIZE - 3), BCD(3),
      LDI(MEMORY_SIZE - 2), BCD(3)>>
RomFontWrite == <<LDB(0, 7), BCD(0), SREG(0), HALT(3)>>
RomSreg ==
    <<LDB(0, 1), LDB(1, 2), LDI(768), SREG(1), LREG(1), LDI(MEMORY_SIZE - 1),
      SREG(0), SREG(1)>>
RomLregBounds == <<LDI(MEMORY_SIZE - 1), LREG(0), LDI(MEMORY_SIZE - 1), LREG(1)>>
RomSkp ==
    <<LDB(0, 1), SKP(0), SKNP(0), LDB(0, KEYPAD_SIZE), SKP(0), HALT(5), HALT(6)>>
RomSknp == <<LDB(0, KEYPAD_SIZE), SKNP(0)>>
RomFont == <<LDB(0, 10), FONT(0), LDB(0, GLYPH_COUNT), FONT(0)>>
RomAlu ==
    <<LDB(0, 255), LDB(1, 1), ADD(0, 1), SUB(0, 1), SUBR(0, 1), SHR(0, 1),
      SHL(0, 1), OR(0, 1), AND(0, 1), XOR(0, 1), ADDB(0, 1), LD(0, 1), HALT(12)>>
RomSkips ==
    <<LDB(0, 5), SKEB(0, 5), HALT(2), SKNEB(0, 5), SKE(0, 1), SKNE(0, 1),
      HALT(6), HALT(7)>>
RomDraw ==
    <<LDB(0, 60), LDB(1, 30), LDI(0), DRAW(0, 1, 5), DRAW(0, 1, 5), DRAW(0, 1, 5),
      CLS, HALT(7)>>
RomTimers == <<LDB(0, 2), LDDT(0), LDST(0), LDFT(1), HALT(4)>>
RomRnd == <<RND(0, 3), ADDI(0), HALT(2)>>
RomJmpz == <<LDB(0, 2), LDB(2, 4), JMPZ(At(2)), HALT(3), HALT(4)>>

Programs ==
    {RomLdk, RomCallSelf, RomRet, RomNested, RomErr, RomFetchLast, RomFetchOdd,
     RomDrawBounds, RomBcd, RomFontWrite, RomSreg, RomLregBounds, RomSkp, RomSknp,
     RomFont, RomAlu, RomSkips, RomDraw, RomTimers, RomRnd, RomJmpz}

\* The largest ROM handed to Chip8::new is MaxOver bytes longer than the space
\* after PROGRAM_START.
MaxOver == 1
\* The driver delivers events for the keys 0..MaxKey.
MaxKey == 1
\* At most MaxQuirksOn of the five quirks are switched on in one run.
MaxQuirksOn == 1

\* ROMs whose length is around the limit of Chip8::new; each is a jump to itself
\* followed by zeros.
BoundaryRoms ==
    {Padded(<<HALT(0)>>, (MEMORY_SIZE - PROGRAM_START) + d) : d \in (-1)..MaxOver}

Roms == {Bytes(ws) : ws \in Programs} \cup BoundaryRoms

QuirkNames == {"vf_reset", "memory", "wrap", "shifting", "jumping"}

Quirks ==
    {q \in [QuirkNames -> BOOLEAN] :
        Cardinality({name \in QuirkNames : q[name]}) <= MaxQuirksOn}

\* The keys the driver's keymap delivers events for.
KeyInputs == 0..MaxKey

\* The values of rand::thread_rng().gen::<u8>()
RandomBytes == 0..255

\* Every quirk switched off.
QuirksOff == [name \in QuirkNames |-> FALSE]

----------------------------------------------------------------------------
(* The ROMs that draw.  Each loads (x, y) into V0 and V1, points the index *)
(* register at its sprite, draws the sprite three times at (x, y) and once *)
(* more at (x + 3, y + 1); the sprite's bytes follow the code.             *)

\* A sprite has at most MaxRows rows.
MaxRows == 2

DrawCode(x, y, n) ==
    <<LDB(0, x), LDB(1, y), LDI(At(10)), DRAW(0, 1, n), DRAW(0, 1, n),
      DRAW(0, 1, n), ADDB(0, 3), ADDB(1, 1), DRAW(0, 1, n), HALT(9)>>

DrawRom(x, y, sprite) == Bytes(DrawCode(x, y, Len(sprite))) \o sprite

\* The sprite of a drawing ROM: the bytes after its ten words of code.
DrawRomSprite(r) == SubSeq(r, 2 * Len(DrawCode(0, 0, 0)) + 1, Len(r))

DrawXs == {5, 60, 127}
DrawYs == {2, 31, 94}
SpriteBytes == {0, 15, 165, 255}
Sprites == UNION {[1..k -> SpriteBytes] : k \in 0..MaxRows}

DrawRoms == {DrawRom(x, y, sprite) : x \in DrawXs, y \in DrawYs, sprite \in Sprites}

\* The wrap quirk on or off, every other quirk off.
WrapQuirks == {[QuirksOff EXCEPT !.wrap = w] : w \in BOOLEAN}

----------------------------------------------------------------------------
(* The state machine                                                       *)

\* The machine's fields as one record.
Chip ==
    [mem |-> mem, buffer |-> buffer, updated |-> updated, v |-> v, i |-> i,
     pc |-> pc, dt |-> dt, st |-> st, stack |-> stack, sp |-> sp, keys |-> keys,
     wait |-> wait, key_released |-> key_released, quirks |-> quirks,
     fatal |-> fatal]

\* The machine's fields become those of the record c.
Becomes(c) ==
    /\ mem' = c.mem
    /\ buffer' = c.buffer
    /\ updated' = c.updated
    /\ v' = c.v
    /\ i' = c.i
    /\ pc' = c.pc
    /\ dt' = c.dt
    /\ st' = c.st
    /\ stack' = c.stack
    /\ sp' = c.sp
    /\ keys' = c.keys
    /\ wait' = c.wait
    /\ key_released' = c.key_released
    /\ quirks' = c.quirks
    /\ fatal' = c.fatal

\* No machine exists before Chip8::new returns Ok.
NoChip ==
    /\ mem = << >>
    /\ buffer = {}
    /\ updated = FALSE
    /\ v = << >>
    /\ i = 0
    /\ pc = 0
    /\ dt = 0
    /\ st = 0
    /\ stack = << >>
    /\ sp = 0
    /\ keys = << >>
    /\ wait = FALSE
    /\ key_released = None
    /\ quirks = << >>
    /\ fatal = ""

Init ==
    /\ rom = << >>
    /\ result = "pending"
    /\ error = ""
    /\ NoChip
    /\ value = 0
    /\ decoded = << >>

\* Chip8::new(rom, quirks)
New(r, q) ==
    /\ result = "pending"
    /\ rom' = r
    /\ IF TooLarge(r)
       THEN /\ result' = "Err"
            /\ error' = ProgramTooLarge
            /\ UNCHANGED <<pc, vmData, fatal>>
       ELSE /\ result' = "Ok"
            /\ error' = ""
            /\ \E c \in {NewChip(r, q)} : Becomes(c)
    /\ UNCHANGED decoderVars

\* The machine exists and no panic has stopped the process.
Running == result = "Ok" /\ fatal = ""

\* The instruction the next call of Chip8::step executes, << "none" >> when its
\* fetch fails.
Fetched == IF FetchFails(Chip) THEN <<"none">> ELSE Decode(Fetch(Chip))

\* Chip8::step
Step ==
    /\ Running
    /\ \E byte \in (IF Fetched[1] = "Rnd" THEN RandomBytes ELSE {0}) :
          \E c \in {StepChip(Chip, byte)} : Becomes(c)
    /\ UNCHANGED <<rom, result, error, decoderVars>>

\* Keypad::key_pressed, called by the driver for a KeyDown event
KeyPressed(key) ==
    /\ Running
    /\ \E c \in {KeypadKeyPressed(Chip, key)} : Becomes(c)
    /\ UNCHANGED <<rom, result, error, decoderVars>>

\* Keypad::key_released, called by the driver for a KeyUp event
KeyReleased(key) ==
    /\ Running
    /\ \E c \in {KeypadKeyReleased(Chip, key)} : Becomes(c)
    /\ UNCHANGED <<rom, result, error, decoderVars>>

\* The driver redraws the screen and clears the framebuffer's flag.
Redraw ==
    /\ Running
    /\ updated
    /\ updated' = FALSE
    /\ UNCHANGED <<rom, result, error, mem, buffer, v, i, pc, dt, st, stack, sp,
                   keys, wait, key_released, quirks, fatal, decoderVars>>

\* The driver decrements the timers once per frame.
TickTimers ==
    /\ Running
    /\ st > 0 \/ dt > 0
    /\ st' = IF st > 0 THEN st - 1 ELSE st
    /\ dt' = IF dt > 0 THEN dt - 1 ELSE dt
    /\ UNCHANGED <<rom, result, error, mem, buffer, updated, v, i, pc, stack, sp,
                   keys, wait, key_released, quirks, fatal, decoderVars>>

Next ==
    \/ \E r \in Roms, q \in Quirks : New(r, q)
    \/ Step
    \/ \E key \in KeyInputs : KeyPressed(key)
    \/ \E key \in KeyInputs : KeyReleased(key)
    \/ Redraw
    \/ TickTimers

Spec == Init /\ [][Next]_vars

----------------------------------------------------------------------------
(* The decoder on its own: every u16 is decoded once.                      *)

InitDecode ==
    /\ rom = << >>
    /\ result = "pending"
    /\ error = ""
    /\ NoChip
    /\ value \in 0..65535
    /\ decoded = << >>

DecodeValue ==
    /\ decoded = << >>
    /\ decoded' = Decode(value)
    /\ UNCHANGED <<rom, result, error, pc, vmData, fatal, value>>

NextDecode == DecodeValue

SpecDecode == InitDecode /\ [][NextDecode]_vars

----------------------------------------------------------------------------
(* The ROMs of one arithmetic instruction 8xyN.  The first kind fills V0   *)
(* and V1 with random bytes and applies the instruction to them; the       *)
(* second kind loads edge values into a pair of registers that are equal   *)
(* or include VF.                                                          *)

AluRndRom(n) == Bytes(<<RND(0, 255), RND(1, 255), Word(8, 0, 1, n), HALT(3)>>)

AluEdgeRom(n, x, y, a, b) == Bytes(<<LDB(x, a), LDB(y, b), Word(8, x, y, n), HALT(3)>>)

EdgePairs == {<<1, 1>>, <<15, 0>>, <<0, 15>>, <<15, 15>>}
EdgeBytes == {0, 1, 127, 128, 255}

AluRoms(ns) ==
    {AluRndRom(n) : n \in ns}
        \cup {AluEdgeRom(n, xy[1], xy[2], a, b) :
                  n \in ns, xy \in EdgePairs, a \in EdgeBytes, b \in EdgeBytes}

\* The low nibble of ADD, and those of SUB and SUBR.
AddOps == {4}
SubOps == {5, 7}

AddRoms == AluRoms(AddOps)
SubRoms == AluRoms(SubOps)

NewAdd == \E r \in AddRoms : New(r, QuirksOff)

NextAdd == NewAdd \/ Step

SpecAdd == Init /\ [][NextAdd]_vars

NewSub == \E r \in SubRoms : New(r, QuirksOff)

NextSub == NewSub \/ Step

SpecSub == Init /\ [][NextSub]_vars

\* The ROMs of a shift of V0 by V1: register few is a random byte over bits 7,
\* 6, 1 and 0, register all a random byte of any value.
ShiftRndRom(n, few, all) ==
    Bytes(<<RND(few, 195), RND(all, 255), Word(8, 0, 1, n), HALT(3)>>)

\* The low nibbles of SHR and SHL.
ShiftOps == {6, 14}

ShiftRoms ==
    {ShiftRndRom(n, fa[1], fa[2]) : n \in ShiftOps, fa \in {<<0, 1>>, <<1, 0>>}}
        \cup {AluEdgeRom(n, xy[1], xy[2], a, b) :
                  n \in ShiftOps, xy \in EdgePairs, a \in EdgeBytes, b \in EdgeBytes}

\* The shifting quirk on or off, every other quirk off.
ShiftQuirks == {[QuirksOff EXCEPT !.shifting = b] : b \in BOOLEAN}

NewShift == \E r \in ShiftRoms, q \in ShiftQuirks : New(r, q)

NextShift == NewShift \/ Step

SpecShift == Init /\ [][NextShift]_vars

\* The ROMs of one BCD Vx: the index register is addr + extra and Vx a random
\* byte.
BcdRom(x, addr, extra) ==
    Bytes(<<LDB(1, extra), LDI(addr), ADDI(1), RND(x, 255), BCD(x), HALT(5)>>)

\* Index values inside memory, at its last three bytes, and beyond it.
BcdIndexes ==
    {<<768, 0>>, <<MEMORY_SIZE - 3, 0>>, <<MEMORY_SIZE - 2, 0>>, <<MEMORY_SIZE - 1, 0>>,
     <<MEMORY_SIZE - 1, 255>>}

BcdRoms == {BcdRom(x, ae[1], ae[2]) : x \in {0, 15}, ae \in BcdIndexes}

NewBcd == \E r \in BcdRoms : New(r, QuirksOff)

NextBcd == NewBcd \/ Step

SpecBcd == Init /\ [][NextBcd]_vars

\* The ROMs that move the index register.  RomAddiLoop adds 255 to it 256
\* times, counting the rounds in V1 until V1 wraps to 0.
RomAddiLoop ==
    <<LDI(MEMORY_SIZE - 1), LDB(0, 255), ADDI(0), ADDB(1, 1), SKEB(1, 0),
      JMP(At(2)), HALT(6)>>

IndexRoms == {Bytes(ws) : ws \in {RomAddiLoop, RomSreg, RomLregBounds, RomFont, RomRnd}}

\* The memory quirk on or off, every other quirk off.
MemoryQuirks == {[QuirksOff EXCEPT !.memory = b] : b \in BOOLEAN}

NewIndex == \E r \in IndexRoms, q \in MemoryQuirks : New(r, q)

NextIndex == NewIndex \/ Step

SpecIndex == Init /\ [][NextIndex]_vars

----------------------------------------------------------------------------
(* The machine run on register store and load programs.                    *)

\* V0 is random, V1 and VF are set, and V0..Vx are stored at addr; the
\* registers are overwritten before they are loaded back, twice.
SregLregRom(x, addr) ==
    <<RND(0, 131), LDB(1, 22), LDB(15, 33), LDI(addr), SREG(x), LDB(0, 44),
      LDB(1, 66), LDB(15, 55), LREG(x), LREG(x), HALT(10)>>

\* The same store, loaded back by the next instruction.
RoundTripRom(x, addr) ==
    <<RND(0, 131), LDB(1, 22), LDB(15, 33), LDI(addr), SREG(x), LREG(x), HALT(6)>>

RegLasts == {0, 1, 15}
RegIndexes == {768, MEMORY_SIZE - 16, MEMORY_SIZE - 2, MEMORY_SIZE - 1}

RegRoms ==
    {Bytes(SregLregRom(x, addr)) : x \in RegLasts, addr \in RegIndexes}
        \cup {Bytes(RoundTripRom(x, addr)) : x \in RegLasts, addr \in RegIndexes}

NewRegs == \E r \in RegRoms, q \in MemoryQuirks : New(r, q)

NextRegs == NewRegs \/ Step

SpecRegs == Init /\ [][NextRegs]_vars

----------------------------------------------------------------------------
(* The machine run on indexed-jump programs.                               *)

\* A jump to 0xFF0 + V0 or 0xFF0 + VF: the target is among the last bytes of
\* memory or beyond them.
RomJmpzHigh ==
    <<RND(0, 31), RND(15, 140), JMPZ(MEMORY_SIZE - 16), HALT(3)>>

\* A jump to one of the words after it, chosen by V0 or by V2.
RomJmpzLow ==
    <<RND(0, 4), RND(2, 8), JMPZ(At(3)), HALT(3), HALT(4), HALT(5), HALT(6),
      HALT(7)>>

JumpRoms == {Bytes(ws) : ws \in {RomJmpzHigh, RomJmpzLow, RomJmpz}}

\* The jumping quirk on or off, every other quirk off.
JumpQuirks == {[QuirksOff EXCEPT !.jumping = b] : b \in BOOLEAN}

NewJump == \E r \in JumpRoms, q \in JumpQuirks : New(r, q)

NextJump == NewJump \/ Step

SpecJump == Init /\ [][NextJump]_vars

----------------------------------------------------------------------------
(* The machine run on key programs, its keypad called with any key.        *)

\* SKP and SKNP on a key number that may or may not be a key.
RomSkpRnd == <<RND(0, 31), SKP(0), SKNP(0), HALT(3), HALT(4)>>

KeyRoms == {Bytes(ws) : ws \in {RomSkp, RomSknp, RomLdk, RomSkpRnd}}

\* The u8 arguments Keypad::key_pressed and Keypad::key_released are called
\* with: the public methods take any u8, not only what the keymap yields.
KeyArgs == {0, 1, KEYPAD_SIZE - 1, KEYPAD_SIZE, 255}

NewKeys == \E r \in KeyRoms : New(r, QuirksOff)

NextKeys ==
    \/ NewKeys
    \/ Step
    \/ \E key \in KeyArgs : KeyPressed(key)
    \/ \E key \in KeyArgs : KeyReleased(key)

SpecKeys == Init /\ [][NextKeys]_vars

----------------------------------------------------------------------------
(* The machine run on the bitwise instructions.                            *)

\* VF is set, V0 and V1 are random, and one of OR, AND, XOR V0, V1 follows.
LogicRndRom(n) ==
    Bytes(<<LDB(15, 7), RND(0, 195), RND(1, 255), Word(8, 0, 1, n), HALT(4)>>)

\* The low nibbles of OR, AND and XOR.
LogicOps == {1, 2, 3}

LogicRoms ==
    {LogicRndRom(n) : n \in LogicOps}
        \cup {AluEdgeRom(n, xy[1], xy[2], a, b) :
                  n \in LogicOps, xy \in EdgePairs, a \in EdgeBytes, b \in EdgeBytes}

\* The vf_reset quirk on or off, every other quirk off.
VfResetQuirks == {[QuirksOff EXCEPT !.vf_reset = b] : b \in BOOLEAN}

NewLogic == \E r \in LogicRoms, q \in VfResetQuirks : New(r, q)

NextLogic == NewLogic \/ Step

SpecLogic == Init /\ [][NextLogic]_vars

----------------------------------------------------------------------------
(* The machine waiting for keys, stepped again and again by the driver.    *)

\* Two waits in a row, for V0 and then for V1.
RomLdkTwice == <<LDK(0), LDK(1), LDB(2, 7), HALT(3)>>

LdkRoms == {Bytes(ws) : ws \in {RomLdk, RomLdkTwice}}

\* The addresses of the LDK instructions of these programs.
LdkAddrs == {At(0), At(1)}

NewLdk == \E r \in LdkRoms : New(r, QuirksOff)

\* Chip8::step, written as the code has it: the fetched word is decoded once,
\* let instr = Instruction::from(self.fetch()), and then executed.  It takes
\* the same transitions as Step.
StepInstr ==
    /\ Running
    /\ \E instr \in {Fetched} :
          \E byte \in (IF instr[1] = "Rnd" THEN RandomBytes ELSE {0}) :
             \E c \in {IF FetchFails(Chip) THEN Panic(Chip, ReadOutOfBounds)
                       ELSE Execute(Chip, instr, byte)} : Becomes(c)
    /\ UNCHANGED <<rom, result, error, decoderVars>>

NextLdk ==
    \/ NewLdk
    \/ StepInstr
    \/ \E key \in KeyInputs : KeyPressed(key)
    \/ \E key \in KeyInputs : KeyReleased(key)

\* Emulator::run calls Chip8::step in every turn of its loop, whatever events
\* it has polled before: a step that can be taken is eventually taken.  Key
\* events come from the user and are bound by nothing.
SpecLdkLive == Init /\ [][NextLdk]_vars /\ WF_vars(StepInstr)

----------------------------------------------------------------------------
(* The machine run on the drawing ROMs.                                    *)

NewDraw == \E r \in DrawRoms, q \in WrapQuirks : New(r, q)

NextDraw == NewDraw \/ Step

SpecDraw == Init /\ [][NextDraw]_vars

----------------------------------------------------------------------------
(* Properties                                                              *)

\* The step about to be taken executes the instruction named op.
StepOf(op) == Running /\ Fetched[1] = op /\ Step

\* C1: an LDK Vx at address a is re-executed (pc stays a, the registers are
\* unchanged) by every step taken while the keypad is idle or is armed with no
\* release recorded; pc becomes a + 2 and Vx is written only by a step that
\* finds the keypad armed with a recorded release, and Vx is then the key of
\* that release.  A release is recorded only by key_released(k) delivered
\* while the keypad is armed, it is the key k of that call, arming starts with
\* none recorded, and only the step that completes an LDK removes it.
C1_LdkBlocksUntilRelease ==
    [][ /\ StepOf("Ldk") =>
              IF wait /\ key_released # None
              THEN /\ pc' = pc + 2
                   /\ v' = [v EXCEPT ![Fetched[2]] = key_released[1]]
              ELSE /\ pc' = pc
                   /\ v' = v
        /\ (key_released' # None /\ key_released' # key_released) =>
              /\ wait
              /\ \E k \in KeyInputs : KeyReleased(k) /\ key_released' = Some(k)
        /\ (\E k \in KeyInputs : KeyReleased(k) /\ wait) => key_released' # None
        /\ (~wait /\ wait') => key_released' = None
        /\ (key_released # None /\ key_released' = None) => StepOf("Ldk")
      ]_vars

\* An LDK V1 has completed with key 1, after the key was released while armed.
C1_Witness ==
    /\ rom = Bytes(RomLdk)
    /\ fatal = ""
    /\ pc = At(1)
    /\ v[1] = 1
    /\ ~wait

\* C2: in every reachable state the released-key slot is non-empty only if the
\* wait flag is set, and the step that consumes the released key clears the
\* wait flag and the slot together.
C2_ReleasedKeyOnlyWhileWaiting ==
    /\ [](result = "Ok" => (key_released # None => wait))
    /\ [][ /\ (StepOf("Ldk") /\ wait /\ key_released # None) =>
                 (~wait' /\ key_released' = None)
           /\ (key_released # None /\ key_released' = None) => ~wait'
           /\ (key_released # None /\ ~wait') => key_released' = None
         ]_vars

\* The keypad is armed and holds a released key that no step has consumed yet.
C2_Witness == result = "Ok" /\ wait /\ key_released = Some(1) /\ fatal = ""

\* C3: in every reachable state of the machine 0 <= sp <= 16.
C3_StackPointerInRange == result = "Ok" => (0 <= sp /\ sp <= STACK_SIZE)

\* The stack is full.
C3_Witness == result = "Ok" /\ sp = STACK_SIZE

\* C4: a CALL executed with fewer than 16 return addresses on the stack
\* succeeds and leaves one more, so 16 nested CALLs from an empty stack succeed;
\* a CALL executed with 16 on the stack is fatal (stack overflow); a RET
\* executed with an empty stack is fatal (stack underflow).
C4_StackDepth ==
    [][ /\ (StepOf("Call") /\ sp < STACK_SIZE) => (fatal' = "" /\ sp' = sp + 1)
        /\ (StepOf("Call") /\ sp = STACK_SIZE) => fatal' = StackOverflow
        /\ (StepOf("Ret") /\ sp = 0) => fatal' = StackUnderflow
        /\ (StepOf("Ret") /\ sp > 0) => fatal' = ""
      ]_vars

\* The 17th nested CALL of a program that calls itself has stopped the machine.
C4_Witness ==
    /\ rom = Bytes(RomCallSelf)
    /\ fatal = StackOverflow
    /\ sp = STACK_SIZE
    /\ \A k \in 0..(STACK_SIZE - 1) : stack[k] = At(0)

\* C5: CALL nnn at address a stores a at stack[sp], increments sp and sets
\* pc = nnn; RET decrements sp and sets pc = stack[sp] + 2 for the entry it
\* pops; nothing else changes the stack or sp.  So the RET that matches a CALL
\* at a finds a in the entry it pops and resumes at a + 2 with sp as before the
\* CALL.
C5_CallRet ==
    [][ /\ (StepOf("Call") /\ sp < STACK_SIZE) =>
              /\ stack' = [stack EXCEPT ![sp] = pc]
              /\ sp' = sp + 1
              /\ pc' = Fetched[2]
        /\ (StepOf("Ret") /\ sp > 0) =>
              /\ pc' = stack[sp - 1] + 2
              /\ sp' = sp - 1
              /\ stack' = stack
        /\ (result = "Ok" /\ ~(StepOf("Call") \/ StepOf("Ret"))) =>
              (stack' = stack /\ sp' = sp)
      ]_vars

\* Two nested calls have returned: execution is at the instruction after the
\* outer CALL and the stack is empty again, with both return addresses still in
\* the stack's slots.
C5_Witness ==
    /\ rom = Bytes(RomNested)
    /\ pc = At(1)
    /\ sp = 0
    /\ stack[0] = At(0)
    /\ stack[1] = At(3)

\* C6: Chip8::new returns Ok exactly when Len(rom) + 0x200 < 4096; otherwise it
\* returns the error and no machine exists.
C6_NewChecksSize ==
    result # "pending" =>
        /\ result = "Ok" <=> Len(rom) + PROGRAM_START < MEMORY_SIZE
        /\ result = "Err" => (error = ProgramTooLarge /\ NoChip)
        /\ result = "Ok" => (error = "" /\ ~NoChip)

\* A ROM of exactly MEMORY_SIZE - PROGRAM_START bytes was refused.
C6_Witness ==
    /\ result = "Err"
    /\ Len(rom) = MEMORY_SIZE - PROGRAM_START
    /\ NoChip

\* Addresses 0..79 hold FONT_DATA.
FontIntact ==
    \A a \in 0..(Len(FONT_DATA) - 1) : MemGet(mem, a) = FONT_DATA[a + 1]

\* C7, as claimed: in every state reachable after construction memory
\* addresses 0..79 hold the font bytes.
C7_FontNeverModified == result = "Ok" => FontIntact

\* C7, amended: Chip8::new leaves the font at addresses 0..79, and a byte of
\* that range changes only in a step that executes BCD or SREG with the index
\* register below 80; every other instruction and every driver call leaves the
\* range as it is.
C7_FontChangedOnlyByStores ==
    [][ /\ (result = "pending" /\ result' = "Ok") => FontIntact'
        /\ (result = "Ok" /\ \E a \in 0..(Len(FONT_DATA) - 1) :
                                MemGet(mem', a) # MemGet(mem, a)) =>
              /\ StepOf("Bcd") \/ StepOf("Sreg")
              /\ i < Len(FONT_DATA)
      ]_vars

\* BCD V0 with index 0 has replaced the first font bytes by the digits of 7.
C7_Witness ==
    /\ rom = Bytes(RomFontWrite)
    /\ MemGet(mem, 0) = 0
    /\ MemGet(mem, 1) = 0
    /\ MemGet(mem, 2) = 7
    /\ ~FontIntact

\* C8: a step that ends in a panic leaves memory, the registers, the index
\* register, the stack, the stack pointer, the timers, the framebuffer and the
\* keypad as they were before the step, and no call is made on the machine
\* after a panic.
C8_FatalStepChangesNothing ==
    [][ /\ fatal = ""
        /\ fatal' # "" =>
              /\ Step
              /\ UNCHANGED vmData
              /\ fatal' \in {StackOverflow, StackUnderflow, ReadOutOfBounds,
                             WriteOutOfBounds, SliceOutOfRange, InvalidKey,
                             InvalidGlyph}
      ]_vars

\* A BCD with the index register two bytes before the end of memory has stopped
\* the machine after earlier BCDs had written memory.
C8_Witness ==
    /\ rom = Bytes(RomBcd)
    /\ fatal = WriteOutOfBounds
    /\ i = MEMORY_SIZE - 2
    /\ MemGet(mem, MEMORY_SIZE - 1) = 4
    /\ MemGet(mem, MEMORY_SIZE - 2) = 5

\* C9: a step that fetches an unrecognized opcode is not fatal, advances pc by
\* 2 and leaves every other field of the machine unchanged.
C9_UnrecognizedIsNoOp ==
    [][ StepOf("Err") => (pc' = pc + 2 /\ fatal' = "" /\ UNCHANGED vmData) ]_vars

\* Five unrecognized opcodes in a row have been stepped over.
C9_Witness ==
    /\ rom = Bytes(RomErr)
    /\ pc = At(8)
    /\ fatal = ""
    /\ v[0] = 5
    /\ i = 291

\* The fields of an opcode, by division.
FieldGrp(val) == val \div 4096
FieldX(val) == (val \div 256) % 16
FieldY(val) == (val \div 16) % 16
FieldN(val) == val % 16
FieldNN(val) == val % 256
FieldNNN(val) == val % 4096

\* The opcodes no instruction is assigned to.
IsGap(val) ==
    \/ FieldGrp(val) = 5 /\ FieldN(val) # 0
    \/ FieldGrp(val) = 8 /\ FieldN(val) \in {8, 9, 10, 11, 12, 13, 15}
    \/ FieldGrp(val) = 9 /\ FieldN(val) # 0
    \/ FieldGrp(val) = 14 /\ FieldNN(val) \notin {158, 161}
    \/ FieldGrp(val) = 15 /\ FieldNN(val) \notin {7, 10, 21, 24, 30, 41, 51, 85, 101}

\* The instruction of an assigned opcode's group, with its fields.
Assigned(val) ==
    LET g == FieldGrp(val)
        x == FieldX(val)
        y == FieldY(val)
        n == FieldN(val)
        nn == FieldNN(val)
        nnn == FieldNNN(val)
        xy(name) == <<name, x, y>>
        xnn(name) == <<name, x, nn>>
    IN  CASE g = 0 -> (IF val = 224 THEN <<"Cls">>
                       ELSE IF val = 238 THEN <<"Ret">> ELSE <<"Sys", nnn>>)
          [] g = 1 -> <<"Jmp", nnn>>
          [] g = 2 -> <<"Call", nnn>>
          [] g = 3 -> xnn("Skeb")
          [] g = 4 -> xnn("Skneb")
          [] g = 5 -> xy("Ske")
          [] g = 6 -> xnn("Ldb")
          [] g = 7 -> xnn("Addb")
          [] g = 8 -> xy(<<"Ld", "Or", "And", "Xor", "Add", "Sub", "Shr", "Subr",
                           "", "", "", "", "", "", "Shl">>[n + 1])
          [] g = 9 -> xy("Skne")
          [] g = 10 -> <<"Ldi", nnn>>
          [] g = 11 -> <<"Jmpz", nnn>>
          [] g = 12 -> xnn("Rnd")
          [] g = 13 -> <<"Draw", x, y, n>>
          [] g = 14 -> <<(IF nn = 158 THEN "Skp" ELSE "Sknp"), x>>
          [] g = 15 -> <<(CASE nn = 7 -> "Ldft" [] nn = 10 -> "Ldk"
                            [] nn = 21 -> "Lddt" [] nn = 24 -> "Ldst"
                            [] nn = 30 -> "Addi" [] nn = 41 -> "Font"
                            [] nn = 51 -> "Bcd" [] nn = 85 -> "Sreg"
                            [] nn = 101 -> "Lreg"), x>>

\* C10: for each of the 65536 opcodes the decoder returns, without a panic,
\* the unrecognized variant with the raw opcode exactly for the gaps (5xyN with
\* N # 0, 8xyN with N in {8..D, F}, 9xyN with N # 0, Exnn with nn not 9E or A1,
\* Fxnn with nn not one of the nine assigned), and otherwise the instruction of
\* the opcode's group with its x, y, n, nn, nnn fields.
C10_DecoderTotal ==
    decoded # << >> =>
        /\ decoded[1] # "panic"
        /\ decoded = IF IsGap(value) THEN <<"Err", value>> ELSE Assigned(value)

\* 0x5121, a malformed SKE, has been decoded as unrecognized.
C10_Witness == value = Word(5, 1, 2, 1) /\ decoded = <<"Err", Word(5, 1, 2, 1)>>

\* Bit cidx, counted from the most significant, of row r of a sprite.
SpriteBit(sprite, r, cidx) == (sprite[r + 1] \div (2 ^ (7 - cidx))) % 2 = 1

\* The sprite pixels (column, row) whose bit is 1.
SpriteOnes(sprite) ==
    {cr \in (0..7) \X (0..(Len(sprite) - 1)) : SpriteBit(sprite, cr[2], cr[1])}

\* The display offsets a draw of sprite at (x8, y8) applies a 1 bit to: with
\* wrap every 1 bit, at its position modulo the display size; without wrap the
\* 1 bits whose unwrapped column is below 64 and unwrapped row below 32.
Covered(x8, y8, sprite, wrap) ==
    LET x0 == x8 % DISPLAY_WIDTH
        y0 == y8 % DISPLAY_HEIGHT
    IN  {((y0 + cr[2]) % DISPLAY_HEIGHT) * DISPLAY_WIDTH + ((x0 + cr[1]) % DISPLAY_WIDTH) :
            cr \in {p \in SpriteOnes(sprite) :
                        wrap \/ (x0 + p[1] < DISPLAY_WIDTH /\ y0 + p[2] < DISPLAY_HEIGHT)}}

\* The machine runs a drawing ROM and has drawn its sprite k times at (V0, V1),
\* starting from the all-clear framebuffer of Chip8::new.
DrawnTimes(k) == result = "Ok" /\ rom \in DrawRoms /\ pc = At(3 + k)

\* C11, as claimed: a sprite with at least one 1 bit drawn twice at the same
\* coordinates on an all-clear framebuffer, with wrap on or off: the first draw
\* returns false, the second returns true, and the framebuffer is all-clear
\* again afterwards.
C11_DrawTwice ==
    /\ (DrawnTimes(1) /\ SpriteOnes(DrawRomSprite(rom)) # {}) => v[15] = 0
    /\ (DrawnTimes(2) /\ SpriteOnes(DrawRomSprite(rom)) # {}) =>
          (v[15] = 1 /\ buffer = AllUnset)

\* C11, amended: the first draw on an all-clear framebuffer returns false and
\* the second identical draw leaves the framebuffer all-clear; the second draw
\* returns true exactly when the sprite has a 1 bit that is applied to the
\* display, which with wrap off excludes the bits clipped at the right and
\* bottom edges.
C11_DrawTwiceVisible ==
    /\ DrawnTimes(1) =>
          /\ v[15] = 0
          /\ buffer = Covered(v[0], v[1], DrawRomSprite(rom), quirks.wrap)
    /\ DrawnTimes(2) =>
          /\ buffer = AllUnset
          /\ v[15] = 1 <=> Covered(v[0], v[1], DrawRomSprite(rom), quirks.wrap) # {}
          /\ v[15] \in {0, 1}

\* A sprite clipped to its left half at column 60 has been drawn twice without
\* wrap: the second draw reported the collision and the display is clear.
C11_Witness ==
    /\ DrawnTimes(2)
    /\ ~quirks.wrap
    /\ v[0] = 60
    /\ DrawRomSprite(rom) = <<255>>
    /\ v[15] = 1
    /\ buffer = AllUnset
    /\ updated

\* The pixels of row `row` in the columns cols, as offsets.
RowPixels(row, cols) == {row * DISPLAY_WIDTH + col : col \in cols}

\* C12: a draw made with wrap disabled changes only pixels that a 1 bit of
\* the sprite reaches at an unwrapped column x0 + i < 64 and unwrapped row
\* y0 + j < 32, where (x0, y0) = (x mod 64, y mod 32), and reports a collision
\* only for such a pixel; a draw made with wrap enabled changes exactly the
\* pixels ((x0 + i) mod 64, (y0 + j) mod 32) of the sprite's 1 bits (i, j).  An
\* 8x1 sprite of ones at x0 = 60 on a clear display sets exactly columns
\* 60..63 with wrap off and columns 60..63 and 0..3 with wrap on.
C12_WrapOrClip ==
    [][ StepOf("Draw") =>
          LET x0 == v[Fetched[2]] % DISPLAY_WIDTH
              y0 == v[Fetched[3]] % DISPLAY_HEIGHT
              sprite == MemSlice(Chip, Fetched[4])
              ones == SpriteOnes(sprite)
              changed == (buffer \ buffer') \cup (buffer' \ buffer)
              unclipped == {cr \in ones : x0 + cr[1] < DISPLAY_WIDTH
                                           /\ y0 + cr[2] < DISPLAY_HEIGHT}
          IN  /\ ~quirks.wrap =>
                    /\ changed = {(y0 + cr[2]) * DISPLAY_WIDTH + (x0 + cr[1]) :
                                     cr \in unclipped}
                    /\ v'[15] = 1 => buffer \cap changed # {}
              /\ quirks.wrap =>
                    changed = {((y0 + cr[2]) % DISPLAY_HEIGHT) * DISPLAY_WIDTH
                                  + ((x0 + cr[1]) % DISPLAY_WIDTH) : cr \in ones}
              /\ (sprite = <<255>> /\ x0 = 60 /\ buffer = AllUnset) =>
                    buffer' = RowPixels(y0, IF quirks.wrap THEN (60..63) \cup (0..3)
                                                           ELSE 60..63)
      ]_vars

\* An 8x1 sprite of ones drawn at column 60 with wrap on lights columns 60..63
\* and 0..3 of its row.
C12_Witness ==
    /\ DrawnTimes(1)
    /\ quirks.wrap
    /\ v[0] = 60
    /\ v[1] = 31
    /\ DrawRomSprite(rom) = <<255>>
    /\ buffer = RowPixels(31, (60..63) \cup (0..3))

\* C13: a draw toggles each pixel that a 1 bit of the sprite is applied to and
\* leaves every other pixel as it was; it returns true exactly when some pixel
\* went from set to unset, and DRAW sets VF to 1 in that case and to 0
\* otherwise.
C13_ToggleAndCollision ==
    [][ StepOf("Draw") =>
          LET cov == Covered(v[Fetched[2]], v[Fetched[3]],
                             MemSlice(Chip, Fetched[4]), quirks.wrap)
          IN  /\ buffer' = (buffer \ cov) \cup (cov \ buffer)
              /\ v'[15] = IF buffer \ buffer' # {} THEN 1 ELSE 0
              /\ \A k \in 0..14 : v'[k] = v[k]
      ]_vars

\* A 8x2 block drawn at (5, 2) and then at (8, 3): the overlap in row 3 is
\* switched off, the rest of both blocks is lit, and VF reports the collision.
C13_Witness ==
    /\ result = "Ok"
    /\ rom = DrawRom(5, 2, <<255, 255>>)
    /\ pc = At(9)
    /\ v[15] = 1
    /\ buffer = RowPixels(2, 5..12) \cup RowPixels(3, (5..7) \cup (13..15))
                    \cup RowPixels(4, 8..15)

\* C14, as claimed: for all register indices x and y and all register values,
\* after ADD Vx,Vy register Vx holds (Vx + Vy) mod 256 of the values before
\* the step and VF holds 1 if Vx + Vy > 255 and 0 otherwise.
C14_AddAllRegisters ==
    [][ StepOf("Add") =>
          /\ v'[Fetched[2]] = (v[Fetched[2]] + v[Fetched[3]]) % 256
          /\ v'[15] = IF v[Fetched[2]] + v[Fetched[3]] > 255 THEN 1 ELSE 0
      ]_vars

\* C14, amended: for all register indices x and y and all register values,
\* after ADD Vx,Vy VF holds 1 if Vx + Vy > 255 and 0 otherwise, computed from
\* the values before the step; Vx holds (Vx + Vy) mod 256 when x is not 0xF,
\* and when x is 0xF the sum is overwritten by the flag; no other register
\* changes.
C14_AddCarry ==
    [][ StepOf("Add") =>
          LET x == Fetched[2]
              sum == v[Fetched[2]] + v[Fetched[3]]
          IN  v' = [k \in DOMAIN v |->
                       IF k = 15 THEN (IF sum > 255 THEN 1 ELSE 0)
                       ELSE IF k = x THEN sum % 256
                       ELSE v[k]]
      ]_vars

\* 0xFF + 0x01 has given V0 = 0x00 and VF = 1.
C14_Witness ==
    /\ rom = AluRndRom(4)
    /\ pc = At(3)
    /\ v[0] = 0
    /\ v[1] = 1
    /\ v[15] = 1

\* The registers after a subtraction minuend - subtrahend stored by an
\* instruction whose first operand is Vx: VF is 1 when there is no borrow and
\* 0 when there is one, Vx is the difference mod 256 unless x is 0xF.
Subtracted(x, minuend, subtrahend) ==
    [k \in DOMAIN v |->
        IF k = 15 THEN (IF minuend >= subtrahend THEN 1 ELSE 0)
        ELSE IF k = x THEN (minuend - subtrahend) % 256
        ELSE v[k]]

C16_SubFlagStrict ==
    [][ /\ StepOf("Sub") =>
              v'[15] = IF v[Fetched[2]] > v[Fetched[3]] THEN 1 ELSE 0
        /\ StepOf("Subr") =>
              v'[15] = IF v[Fetched[3]] > v[Fetched[2]] THEN 1 ELSE 0
      ]_vars

\* C17: SHR Vx,Vy and SHL Vx,Vy shift the pre-step Vx when the shifting quirk
\* is off, whatever Vy holds, and the pre-step Vy when it is on: VF becomes the
\* least-significant (SHR) or most-significant (SHL) bit of that value, Vx the
\* value shifted by one (VF keeps the bit when x is 0xF), and no other register
\* changes.  The registers the other quirk setting would have produced from
\* the same state differ from these exactly when Vx # Vy, and when x is 0xF
\* exactly when Vx and Vy differ in the bit shifted out.
C17_ShiftQuirk ==
    [][ LET f == IF Running THEN Fetched ELSE <<"none">>
        IN  (f[1] \in {"Shr", "Shl"} /\ Step) =>
              LET x == f[2]
                  y == f[3]
                  OutBit(b) == IF f[1] = "Shr" THEN b % 2 ELSE b \div 128
                  Shifted(b) == IF f[1] = "Shr" THEN b \div 2 ELSE (2 * b) % 256
                  src == IF quirks.shifting THEN v[y] ELSE v[x]
                  other == StepChip([Chip EXCEPT !.quirks.shifting = ~quirks.shifting], 0).v
              IN  /\ v' = [k \in DOMAIN v |->
                              IF k = 15 THEN OutBit(src)
                              ELSE IF k = x THEN Shifted(src)
                              ELSE v[k]]
                  /\ x # 15 => (other # v' <=> v[x] # v[y])
                  /\ x = 15 => (other # v' <=> OutBit(v[x]) # OutBit(v[y]))
      ]_vars

\* SHR V0,V1 with the shifting quirk on and V1 = 3 has given V0 = 1, VF = 1.
C17_Witness ==
    /\ rom = ShiftRndRom(6, 0, 1)
    /\ quirks.shifting
    /\ pc = At(3)
    /\ v[1] = 3
    /\ v[0] = 1
    /\ v[15] = 1

\* C18: for every Vx in 0..255, BCD Vx executed with index + 2 inside memory
\* writes digits d2, d1, d0 in 0..9 with 100 * d2 + 10 * d1 + d0 = Vx to
\* memory[index], memory[index + 1], memory[index + 2] and changes no other
\* byte of memory and no register; executed with index + 2 outside memory it
\* is fatal.
C18_BcdDigits ==
    [][ LET f == IF Running THEN Fetched ELSE <<"none">>
        IN  (f[1] = "Bcd" /\ Step) =>
              IF i + 2 < MEMORY_SIZE
              THEN LET d2 == MemGet(mem', i)
                       d1 == MemGet(mem', i + 1)
                       d0 == MemGet(mem', i + 2)
                   IN  /\ fatal' = ""
                       /\ {d2, d1, d0} \subseteq 0..9
                       /\ 100 * d2 + 10 * d1 + d0 = v[f[2]]
                       /\ \A a \in (DOMAIN mem \cup DOMAIN mem') \ {i, i + 1, i + 2} :
                             MemGet(mem', a) = MemGet(mem, a)
                       /\ UNCHANGED <<v, i, dt, st, stack, sp, buffer, updated,
                                      keys, wait, key_released, quirks>>
              ELSE fatal' = WriteOutOfBounds
      ]_vars

\* BCD of 254 has written 2, 5, 4 to the last three bytes of memory.
C18_Witness ==
    /\ rom = BcdRom(0, MEMORY_SIZE - 3, 0)
    /\ pc = At(5)
    /\ fatal = ""
    /\ v[0] = 254
    /\ MemGet(mem, MEMORY_SIZE - 3) = 2
    /\ MemGet(mem, MEMORY_SIZE - 2) = 5
    /\ MemGet(mem, MEMORY_SIZE - 1) = 4

\* C19: a step changes the delay timer only when it executes LDDT Vx, which
\* sets it to Vx, and the sound timer only when it executes LDST Vx, which
\* sets it to Vx; each of them leaves the other timer alone, and LDFT Vx
\* copies the delay timer into Vx and leaves both timers as they were.  So no
\* step counts a timer down.
C19_StepLeavesTimers ==
    [][ LET f == IF Running THEN Fetched ELSE <<"none">>
        IN  /\ (dt' # dt /\ Step) => f[1] = "Lddt"
            /\ (st' # st /\ Step) => f[1] = "Ldst"
            /\ (f[1] = "Lddt" /\ Step) => (dt' = v[f[2]] /\ st' = st)
            /\ (f[1] = "Ldst" /\ Step) => (st' = v[f[2]] /\ dt' = dt)
            /\ (f[1] = "Ldft" /\ Step) =>
                  (dt' = dt /\ st' = st /\ v' = [v EXCEPT ![f[2]] = dt])
      ]_vars

\* Both timers were loaded with 2 and the delay timer was read back before
\* the driver's first tick.
C19_Witness ==
    /\ rom = Bytes(RomTimers)
    /\ pc = At(4)
    /\ dt = 2
    /\ st = 2
    /\ v[1] = 2

\* C20: the framebuffer's flag is set after every call that changes a pixel
\* and after every clear(), and a set flag is reset only by the driver after
\* it has redrawn, never by a step or a keypad call.
C20_DirtyFlag ==
    [][ result = "Ok" =>
          LET f == IF Running THEN Fetched ELSE <<"none">>
          IN  /\ buffer' # buffer => updated'
              /\ (f[1] = "Cls" /\ Step) => (updated' /\ buffer' = AllUnset)
              /\ (updated /\ ~updated') => (Redraw /\ ~Step)
      ]_vars

\* The first draw of a glyph has lit pixels and set the flag.
C20_Witness ==
    /\ rom = Bytes(RomDraw)
    /\ pc = At(4)
    /\ buffer # AllUnset
    /\ updated

\* C21, as claimed: in every reachable state the index register is
\* representable in 16 bits.
C21_IndexFitsU16 == result = "Ok" => i \in 0..65535

\* C21, amended: the index register is never negative and no instruction
\* truncates it: LDI nnn sets it to nnn, FONT Vx to 5 * Vx, ADDI Vx adds Vx to
\* it without wrapping at 16 bits, SREG Vx and LREG Vx add x + 1 to it when
\* the memory quirk is on and leave it alone when it is off, and nothing else
\* changes it.
C21_IndexNotTruncated ==
    /\ [](result = "Ok" => i >= 0)
    /\ [][ LET f == IF Running THEN Fetched ELSE <<"none">>
           IN  /\ (f[1] = "Ldi" /\ Step) => i' = f[2]
               /\ (f[1] = "Addi" /\ Step) => i' = i + v[f[2]]
               /\ (f[1] = "Font" /\ Step /\ fatal' = "") => i' = 5 * v[f[2]]
               /\ (f[1] \in {"Sreg", "Lreg"} /\ Step /\ fatal' = "") =>
                     i' = IF quirks.memory THEN i + f[2] + 1 ELSE i
               /\ (result = "Ok" /\ i' # i) =>
                     f[1] \in {"Ldi", "Addi", "Font", "Sreg", "Lreg"}
         ]_vars

\* 256 rounds of ADDI with V0 = 255 from 0xFFF have taken the index register
\* past 16 bits.
C21_Witness ==
    /\ rom = Bytes(RomAddiLoop)
    /\ pc = At(6)
    /\ fatal = ""
    /\ i = (MEMORY_SIZE - 1) + 256 * 255
    /\ i > 65535

\* C22: the machine Chip8::new returns in Ok has pc = 0x200, the ROM's bytes
\* in memory from 0x200 on, the font in bytes 0..79 and zero in every other
\* byte, the 16 V registers, the index register, both timers and the stack
\* pointer zero, no key pressed, the keypad not waiting with no released key,
\* and the framebuffer all-clear and not marked as updated.
C22_InitialMachine ==
    [][ (result = "pending" /\ result' = "Ok") =>
          /\ pc' = 512
          /\ \A a \in 0..(MEMORY_SIZE - 1) :
                MemGet(mem', a) =
                    IF a < Len(FONT_DATA) THEN FONT_DATA[a + 1]
                    ELSE IF a >= 512 /\ a < 512 + Len(rom') THEN rom'[(a - 512) + 1]
                    ELSE 0
          /\ DOMAIN v' = 0..15
          /\ \A k \in 0..15 : v'[k] = 0
          /\ i' = 0
          /\ dt' = 0
          /\ st' = 0
          /\ sp' = 0
          /\ DOMAIN keys' = 0..15
          /\ \A k \in 0..15 : ~keys'[k]
          /\ ~wait'
          /\ key_released' = None
          /\ buffer' = {}
          /\ ~updated'
          /\ fatal' = ""
      ]_vars

\* The largest ROM that is accepted has been loaded: its jump is at 0x200 and
\* the last byte of memory is still free.
C22_Witness ==
    /\ result = "Ok"
    /\ Len(rom) = (MEMORY_SIZE - PROGRAM_START) - 1
    /\ pc = PROGRAM_START
    /\ MemGet(mem, PROGRAM_START) = 18
    /\ MemGet(mem, MEMORY_SIZE - 1) = 0
    /\ i = 0
    /\ sp = 0
    /\ ~updated

\* C23: an LDK Vx executed while the keypad is idle arms it, leaves pc at the
\* LDK and writes no register, so a step that moves past an LDK is never the
\* first one on it: it finds the keypad armed, and only an earlier LDK step can
\* have armed it.  A key release delivered while the keypad is idle is not
\* recorded and does not arm it.
C23_LdkArmsFirst ==
    [][ /\ (StepOf("Ldk") /\ ~wait) =>
              /\ wait'
              /\ pc' = pc
              /\ v' = v
              /\ key_released' = None
        /\ (StepOf("Ldk") /\ pc' # pc) => (wait /\ key_released # None)
        /\ (result = "Ok" /\ ~wait /\ wait') => StepOf("Ldk")
        /\ \A k \in KeyInputs :
              (KeyReleased(k) /\ ~wait) => (~wait' /\ key_released' = None)
      ]_vars

\* The LDK has been executed from the idle keypad: the keypad is armed, pc is
\* still at the LDK and no release is recorded.
C23_Witness ==
    /\ rom = Bytes(RomLdk)
    /\ pc = At(0)
    /\ wait
    /\ key_released = None
    /\ \A k \in DOMAIN keys : ~keys[k]
    /\ fatal = ""

\* The instructions whose arm in Chip8::execute never assigns pc.
PlainOps ==
    {"Sys", "Cls", "Ldb", "Addb", "Ld", "Or", "And", "Xor", "Add", "Sub", "Shr",
     "Subr", "Shl", "Ldi", "Rnd", "Draw", "Ldft", "Lddt", "Ldst", "Addi", "Font",
     "Bcd", "Sreg", "Lreg", "Err"}

\* The condition under which the skip instruction f skips, in the current state.
SkipCondition(f) ==
    CASE f[1] = "Skeb" -> v[f[2]] = f[3]
      [] f[1] = "Skneb" -> v[f[2]] # f[3]
      [] f[1] = "Ske" -> v[f[2]] = v[f[3]]
      [] f[1] = "Skne" -> v[f[2]] # v[f[3]]
      [] f[1] = "Skp" -> keys[v[f[2]]]
      [] f[1] = "Sknp" -> ~keys[v[f[2]]]

\* C24: a step whose fetch would read at pc + 1 >= 4096 is fatal and executes
\* nothing, and every other step executes an instruction.  A step that
\* completes ends with pc = old pc + 2
\* for every instruction that is not a jump, call, return, skip or LDK, with
\* old pc + 4 or old pc + 2 for a skip instruction whose condition holds or
\* does not hold, and with pc = nnn for JMP nnn and CALL nnn.
C24_ProgramCounter ==
    [][ LET f == IF Running THEN Fetched ELSE <<"none">>
        IN  (Running /\ Step) =>
              /\ (pc + 1 >= 4096) =>
                    (fatal' = ReadOutOfBounds /\ pc' = pc /\ UNCHANGED vmData)
              /\ (pc + 1 < 4096) => f[1] # "none"
              /\ (fatal' = "" /\ f[1] \in PlainOps) => pc' = pc + 2
              /\ (fatal' = "" /\ f[1] \in {"Skeb", "Skneb", "Ske", "Skne", "Skp", "Sknp"}) =>
                    pc' = IF SkipCondition(f) THEN pc + 4 ELSE pc + 2
              /\ (fatal' = "" /\ f[1] \in {"Jmp", "Call"}) => pc' = f[2]
      ]_vars

\* SKEB V0, 5 found V0 = 5 and skipped the word after it.
C24_Witness ==
    /\ rom = Bytes(RomSkips)
    /\ pc = At(3)
    /\ v[0] = 5
    /\ fatal = ""

\* The index register after SREG Vx or LREG Vx.
IndexAfter(x) == IF quirks.memory THEN i + x + 1 ELSE i

\* C25: SREG Vx stores V0..Vx at memory[i .. i + x] and changes no other byte
\* and no register; LREG Vx loads V0..Vx from that range and changes no
\* register above Vx and no memory; both add x + 1 to the index exactly when
\* the memory quirk is on, and both are fatal, changing nothing, when i + x is
\* outside memory.  With the quirk off, an LREG Vx that directly follows the
\* SREG Vx leaves every register as it was.
C25_StoreLoadRegisters ==
    [][ LET f == IF Running THEN Fetched ELSE <<"none">>
        IN  /\ (f[1] = "Sreg" /\ Step) =>
                  IF i + f[2] >= 4096
                  THEN fatal' = WriteOutOfBounds /\ UNCHANGED vmData
                  ELSE /\ fatal' = ""
                       /\ \A a \in 0..(MEMORY_SIZE - 1) :
                             MemGet(mem', a) =
                                 IF a >= i /\ a <= i + f[2] THEN v[a - i]
                                 ELSE MemGet(mem, a)
                       /\ v' = v
                       /\ i' = IndexAfter(f[2])
            /\ (f[1] = "Lreg" /\ Step) =>
                  IF i + f[2] >= 4096
                  THEN fatal' = ReadOutOfBounds /\ UNCHANGED vmData
                  ELSE /\ fatal' = ""
                       /\ \A k \in 0..15 :
                             v'[k] = IF k <= f[2] THEN MemGet(mem, i + k) ELSE v[k]
                       /\ mem' = mem
                       /\ i' = IndexAfter(f[2])
            /\ ( /\ f[1] = "Lreg" /\ Step
                 /\ ~quirks.memory
                 /\ fatal' = ""
                 /\ FromBeBytes(MemGet(mem, pc - 2), MemGet(mem, pc - 1)) = SREG(f[2]) )
                    => v' = v
      ]_vars

\* V0..VF were stored in the last sixteen bytes of memory and loaded back.
C25_Witness ==
    /\ rom = Bytes(RoundTripRom(15, MEMORY_SIZE - 16))
    /\ ~quirks.memory
    /\ pc = At(6)
    /\ MemGet(mem, MEMORY_SIZE - 1) = 33
    /\ MemGet(mem, MEMORY_SIZE - 15) = 22
    /\ v[15] = 33 /\ v[1] = 22
    /\ i = MEMORY_SIZE - 16
    /\ fatal = ""

\* C26: JMPZ nnn sets pc to nnn + V0 with the jumping quirk off and to
\* nnn + Vx, x the top nibble of nnn, with it on, and changes nothing else; the
\* sum is not reduced, and a step taken with pc at or beyond the memory size
\* is fatal in its fetch.
C26_IndexedJump ==
    [][ LET f == IF Running THEN Fetched ELSE <<"none">>
        IN  /\ (f[1] = "Jmpz" /\ Step) =>
                  /\ pc' = f[2] + (IF quirks.jumping THEN v[f[2] \div 256] ELSE v[0])
                  /\ fatal' = ""
                  /\ UNCHANGED vmData
            /\ (Running /\ pc >= MEMORY_SIZE /\ Step) =>
                  (fatal' = ReadOutOfBounds /\ pc' = pc /\ UNCHANGED vmData)
      ]_vars

\* With the quirk on, JMPZ 0xFF0 added VF = 140 and not V0 = 1; the fetch at
\* 4220 was fatal.
C26_Witness ==
    /\ rom = Bytes(RomJmpzHigh)
    /\ quirks.jumping
    /\ v[0] = 1
    /\ v[15] = 140
    /\ pc = (MEMORY_SIZE - 16) + 140
    /\ fatal = ReadOutOfBounds

\* The fields no key event touches.
notKeypad == <<mem, buffer, updated, v, i, pc, dt, st, stack, sp, quirks>>

\* C27: key_pressed(k) and key_released(k) are fatal for k >= 16 and change
\* nothing then; for k < 16 key_pressed(k) sets key k, key_released(k) clears
\* key k, neither touches another key or the wait flag, and key_pressed leaves
\* the released-key slot alone.  SKP Vx and SKNP Vx are fatal exactly when
\* Vx >= 16.
C27_KeyIndices ==
    [][ LET f == IF Running THEN Fetched ELSE <<"none">>
        IN  /\ \A k \in KeyArgs :
                  KeyPressed(k) =>
                      /\ UNCHANGED notKeypad
                      /\ wait' = wait
                      /\ key_released' = key_released
                      /\ IF k >= 16
                         THEN fatal' = InvalidKey /\ keys' = keys
                         ELSE /\ fatal' = ""
                              /\ \A j \in 0..15 : keys'[j] = (j = k \/ keys[j])
            /\ \A k \in KeyArgs :
                  KeyReleased(k) =>
                      /\ UNCHANGED notKeypad
                      /\ wait' = wait
                      /\ IF k >= 16
                         THEN fatal' = InvalidKey /\ keys' = keys
                                 /\ key_released' = key_released
                         ELSE /\ fatal' = ""
                              /\ \A j \in 0..15 : keys'[j] = (j # k /\ keys[j])
            /\ (f[1] \in {"Skp", "Sknp"} /\ Step) =>
                  /\ (v[f[2]] >= 16) <=> (fatal' = InvalidKey)
                  /\ (v[f[2]] < 16) <=> (fatal' = "")
                  /\ UNCHANGED vmData
      ]_vars

\* Key F was pressed, and then key_pressed(16) or key_pressed(255) stopped the
\* machine before its first step.
C27_Witness ==
    /\ rom = Bytes(RomLdk)
    /\ pc = At(0)
    /\ keys[KEYPAD_SIZE - 1]
    /\ ~keys[0]
    /\ ~wait
    /\ fatal = InvalidKey

\* Bit k of the byte a.
BitOf(a, k) == (a \div (2 ^ k)) % 2

\* The byte whose bit k is the OR, AND or XOR of bit k of a and bit k of b.
Bitwise(op, a, b) ==
    LET bit(k) ==
            CASE op = "Or" -> IF BitOf(a, k) + BitOf(b, k) > 0 THEN 1 ELSE 0
              [] op = "And" -> BitOf(a, k) * BitOf(b, k)
              [] op = "Xor" -> (BitOf(a, k) + BitOf(b, k)) % 2
    IN  bit(0) + 2 * bit(1) + 4 * bit(2) + 8 * bit(3) + 16 * bit(4)
            + 32 * bit(5) + 64 * bit(6) + 128 * bit(7)

\* C28: OR, AND and XOR Vx, Vy store the bitwise result of the old Vx and Vy in
\* Vx; with the vf_reset quirk on VF is 0 afterwards for every x and y, so that
\* for x = F the result itself is replaced by 0; with the quirk off VF changes
\* only as the destination, when x = F.  No other register changes.
C28_BitwiseVfReset ==
    [][ LET f == IF Running THEN Fetched ELSE <<"none">>
        IN  (f[1] \in {"Or", "And", "Xor"} /\ Step) =>
              /\ v' = [k \in 0..15 |->
                          IF k = 15 /\ quirks.vf_reset THEN 0
                          ELSE IF k = f[2] THEN Bitwise(f[1], v[f[2]], v[f[3]])
                          ELSE v[k]]
              /\ quirks.vf_reset => v'[15] = 0
              /\ (~quirks.vf_reset /\ f[2] # 15) => v'[15] = v[15]
              /\ pc' = pc + 2
              /\ fatal' = ""
              /\ UNCHANGED <<mem, buffer, updated, i, dt, st, stack, sp, keys, wait,
                             key_released, quirks>>
      ]_vars

\* With the quirk on, XOR V0, V1 computed 195 XOR 60 = 255 and cleared VF,
\* which held 7.
C28_Witness ==
    /\ rom = LogicRndRom(3)
    /\ quirks.vf_reset
    /\ pc = At(4)
    /\ v[0] = 255
    /\ v[1] = 60
    /\ v[15] = 0
    /\ fatal = ""

\* C29: once the keypad is armed by the LDK at address a and a release has been
\* delivered to it, the steps the driver keeps taking lead to the keypad idle
\* again with the release consumed and pc at a + 2.  Every release delivered
\* while armed replaces the recorded key, and the completing step writes the
\* recorded key, the most recent one, to Vx.
C29_KeyWaitCompletes ==
    /\ \A a \in LdkAddrs :
          (Running /\ wait /\ key_released # None /\ pc = a)
              ~> (~wait /\ key_released = None /\ pc = a + 2)
    /\ [][ /\ \A k \in KeyInputs :
                 (wait /\ KeyReleased(k)) => key_released' = Some(k)
           /\ (wait /\ key_released # None /\ StepOf("Ldk")) =>
                 /\ v'[Fetched[2]] = key_released[1]
                 /\ \A k \in 0..15 : k # Fetched[2] => v'[k] = v[k]
                 /\ ~wait'
                 /\ pc' = pc + 2
         ]_vars

\* Both waits have completed: the first took key 1 and the second key 0.
C29_Witness ==
    /\ rom = Bytes(RomLdkTwice)
    /\ pc = At(2)
    /\ v[0] = 1
    /\ v[1] = 0
    /\ ~wait
    /\ key_released = None
    /\ fatal = ""

====
